---- MODULE Spec2Model ----
(***************************************************************************)
(* Session and task orchestration of the quiz bot: the task queue          *)
(* (utils/queue_manager.py), the worker loop (main.py), the content        *)
(* pipeline (bot/content_processor.py) and the handlers that feed them     *)
(* (bot/handlers.py, bot/callbacks.py).                                    *)
(*                                                                         *)
(* The program runs on one asyncio event loop.  Updates are dispatched one *)
(* at a time, so at most one handler is in progress; the worker loop is a  *)
(* second coroutine on the same loop.  A step of the model is the code     *)
(* that runs between two awaits.                                           *)
(***************************************************************************)
EXTENDS Integers, Sequences, FiniteSets, TLC

\* ---- bounds ----
NumUsers == 3
MAX_QUEUE_SIZE == 2
MaxTasks == 3
NumPosters == 2
MaxSessions == 2
MaxQuestions == 5

Users == 1..NumUsers
\* handle_photo; handle_document does the same with content_type "pdf", whose pages
\* are read by PDFProcessor.pdf_to_images
ContentTypes == {"images"}
\* the mode is stored and passed on to the extraction service, never read
Modes == {"extraction"}
\* lengths of the question list that process_images_parallel returns
QuestionCounts == {0, 1}

VARIABLES
    queue,        \* TaskQueue.queue: sequence of task records, head first
    processing,   \* TaskQueue.processing: the keys of the dict
    user_states,  \* BotHandlers.user_states: one record per user
    wpc,          \* where the worker coroutine is suspended
    task,         \* the task the worker holds (local variable of start)
    h,            \* the handler in progress, suspended at an await
    clock,        \* number of timestamps handed out by datetime.now()
    handed,       \* history: timestamp of the task last passed to process_content
    files,        \* the users whose download TEMP_DIR/<user_id>_image.jpg exists
    buttons,      \* each user's chat: the inline buttons by the session id they carry,
                  \* and whether a topic id was asked for and not yet sent
    poster,       \* the call of QuizPoster.post_quizzes_batch in progress
    pdf_sessions, \* PDFExporter.pdf_sessions: one record per user
    collections,  \* PollCollector.collections: one record per user
    status_messages, \* PollCollector.status_messages: the keys of the dict
    csvrun,       \* a CSV conversion: the caller's question list, the file, the parse result
    calls,        \* the extraction calls of one Extract stage, one per page
    ev            \* observation: what the last step returned or reported

vars == <<queue, processing, user_states, wpc, task, h, clock, handed, files, buttons, poster,
         pdf_sessions, collections, status_messages, csvrun, calls, ev>>

\* what the upload handlers, the cancel command and the worker never touch
postvars == <<buttons, poster, pdf_sessions, collections, status_messages, csvrun, calls>>

\* what the posting handlers never touch
sidevars == <<pdf_sessions, collections, status_messages, csvrun, calls>>

\* ---- values ----
NoState == [present |-> FALSE, content_type |-> "absent", mode |-> "absent", questions |-> 0]
UploadState(ct) == [present |-> TRUE, content_type |-> ct, mode |-> "absent", questions |-> 0]
GeneratedState(n) == [present |-> TRUE, content_type |-> "absent", mode |-> "absent", questions |-> n]

NoTask == [user_id |-> 0, content_type |-> "absent", mode |-> "absent", timestamp |-> 0]
NoHandler == [op |-> "none", user |-> 0, arg |-> "none"]
NoEvent == [op |-> "none", user |-> 0, val |-> 0]
NoButtons == [post |-> 0, dest |-> {}, asked |-> FALSE]
NoBatch == [total |-> 0, log |-> <<>>, success |-> 0, failed |-> 0, done |-> FALSE]
NoPdfSession == [present |-> FALSE, questions |-> 0, waiting_for_name |-> FALSE,
                 waiting_for_format |-> FALSE]
NoCollection == [present |-> FALSE, polls |-> <<>>]
NoCsvRun == [step |-> "none", given |-> <<>>, questions |-> <<>>, rows |-> <<>>, parsed |-> <<>>]

\* ---- TaskQueue (utils/queue_manager.py) ----
InQueue(q, u) == \E i \in 1..Len(q) : q[i].user_id = u

\* add_task without the test of the processing dict (lines 14-15 left out)
add_task_check_unmarked(q, p, u) ==
    IF InQueue(q, u) THEN -2
    ELSE IF Len(q) >= MAX_QUEUE_SIZE THEN -1
    ELSE 0

\* add_task comparing with > instead of >= (line 19)
add_task_check_late(q, p, u) ==
    IF u \in p THEN -2
    ELSE IF InQueue(q, u) THEN -2
    ELSE IF Len(q) > MAX_QUEUE_SIZE THEN -1
    ELSE 0

\* add_task testing the capacity before the owner (lines 19-20 before 14-18)
add_task_check_full_first(q, p, u) ==
    IF Len(q) >= MAX_QUEUE_SIZE THEN -1
    ELSE IF u \in p THEN -2
    ELSE IF InQueue(q, u) THEN -2
    ELSE 0

\* lines 14-20: the reason a task is refused, 0 when it is admitted
add_task_check(q, p, u) ==
    IF u \in p THEN -2
    ELSE IF InQueue(q, u) THEN -2
    ELSE IF Len(q) >= MAX_QUEUE_SIZE THEN -1
    ELSE 0

\* add_task appending before its tests
add_task_queue_always(q, p, u, ct, m, ts) ==
    Append(q, [user_id |-> u, content_type |-> ct, mode |-> m, timestamp |-> ts])

\* line 21: the queue after the call
add_task_queue(q, p, u, ct, m, ts) ==
    IF add_task_check(q, p, u) = 0
    THEN Append(q, [user_id |-> u, content_type |-> ct, mode |-> m, timestamp |-> ts])
    ELSE q

\* add_task returning the length taken before the append
add_task_ret_before(q, p, u, q2) ==
    IF add_task_check(q, p, u) # 0 THEN add_task_check(q, p, u) ELSE Len(q)

\* lines 15, 18, 20, 22: the value returned, q2 being the queue after the call
add_task_ret(q, p, u, q2) ==
    IF add_task_check(q, p, u) # 0 THEN add_task_check(q, p, u) ELSE Len(q2)

\* pop() instead of pop(0): the task at the tail
get_next_task_last(q) == IF q # <<>> THEN q[Len(q)] ELSE NoTask

get_next_task(q) == IF q # <<>> THEN Head(q) ELSE NoTask

\* the head is read but not removed
get_next_task_queue_peek(q) == q

\* the head is put back at the tail
get_next_task_queue_rotate(q) == IF q # <<>> THEN Append(Tail(q), Head(q)) ELSE q

get_next_task_queue(q) == IF q # <<>> THEN Tail(q) ELSE q

\* get_position returning idx instead of idx + 1
get_position_zero_based(q, u) ==
    IF InQueue(q, u)
    THEN (CHOOSE i \in 1..Len(q) : q[i].user_id = u /\ \A j \in 1..(i-1) : q[j].user_id # u) - 1
    ELSE 0

get_position(q, u) ==
    IF InQueue(q, u)
    THEN CHOOSE i \in 1..Len(q) : q[i].user_id = u /\ \A j \in 1..(i-1) : q[j].user_id # u
    ELSE 0

is_processing(p, u) == u \in p

\* set_processing that records nothing when status is True
set_processing_unrecorded(p, u, status) == IF status THEN p ELSE p \ {u}

set_processing(p, u, status) == IF status THEN p \cup {u} ELSE p \ {u}

\* clear_user emptying the whole queue
clear_user_queue_all(q, u) == <<>>

RECURSIVE clear_user_queue(_, _)
clear_user_queue(q, u) ==
    IF q = <<>> THEN <<>>
    ELSE IF Head(q).user_id = u THEN clear_user_queue(Tail(q), u)
    ELSE <<Head(q)>> \o clear_user_queue(Tail(q), u)

\* clear_user without line 53
clear_user_processing_kept(p, u) == p

clear_user_processing(p, u) == p \ {u}

\* ---- initial state ----
Init ==
    /\ queue = <<>>
    /\ processing = {}
    /\ user_states = [u \in Users |-> NoState]
    /\ wpc = "idle"
    /\ task = NoTask
    /\ h = NoHandler
    /\ clock = 0
    /\ handed = 0
    /\ files = {}
    /\ buttons = [u \in Users |-> NoButtons]
    /\ poster = NoBatch
    /\ pdf_sessions = [u \in Users |-> NoPdfSession]
    /\ collections = [u \in Users |-> NoCollection]
    /\ status_messages = {}
    /\ csvrun = NoCsvRun
    /\ calls = <<>>
    /\ ev = NoEvent

\* ---- handlers (bot/handlers.py, bot/callbacks.py) ----
\* handle_photo without the test of lines 287-289
HandleUploadWith_unchecked(u, ct, e) ==
    /\ h = NoHandler
    /\ h' = [op |-> "download", user |-> u, arg |-> ct]
    /\ ev' = NoEvent
    /\ UNCHANGED <<queue, processing, user_states, wpc, task, clock, handed, files>>
    /\ UNCHANGED postvars

\* handle_photo up to the first await; e is what is observed of a refusal
HandleUploadWith(u, ct, e) ==
    /\ h = NoHandler
    /\ IF user_states[u].present \/ is_processing(processing, u)
       THEN /\ h' = h
            /\ ev' = e
       ELSE /\ h' = [op |-> "download", user |-> u, arg |-> ct]
            /\ ev' = NoEvent
    /\ UNCHANGED <<queue, processing, user_states, wpc, task, clock, handed, files>>
    /\ UNCHANGED postvars

\* the same step with the reply left out of the picture
HandleUpload(u, ct) == HandleUploadWith(u, ct, NoEvent)

\* the download returns: the session is stored, or the download failed; f2 is the
\* temporary directory afterwards
HandleUploadDoneWith(ok, f2) ==
    /\ h.op = "download"
    /\ user_states' = IF ok THEN [user_states EXCEPT ![h.user] = UploadState(h.arg)]
                      ELSE user_states
    /\ files' = f2
    /\ h' = NoHandler
    /\ ev' = NoEvent
    /\ UNCHANGED <<queue, processing, wpc, task, clock, handed>>
    /\ UNCHANGED postvars

\* the same step with the temporary directory left out of the picture
HandleUploadDone(ok) == HandleUploadDoneWith(ok, files)

\* handle_callback, data = "mode_<m>", up to the await of edit_message_text
ModeCallback(u, m) ==
    /\ h = NoHandler
    /\ IF ~user_states[u].present
       THEN /\ h' = h
            /\ user_states' = user_states
            /\ ev' = NoEvent
       ELSE /\ user_states' = [user_states EXCEPT ![u].mode = m]
            /\ h' = [op |-> "mode", user |-> u, arg |-> m]
            /\ ev' = NoEvent
    /\ UNCHANGED <<queue, processing, wpc, task, clock, handed, files>>
    /\ UNCHANGED postvars

\* add_to_queue_direct, reached when edit_message_text returned; a session without
\* the key 'content_type' raises KeyError at line 312, which leaves the handler
AddToQueueDirect ==
    /\ h.op = "mode"
    /\ clock < MaxTasks \/ add_task_check(queue, processing, h.user) # 0
    /\ LET u == h.user
           s == user_states[u]
       IN IF ~s.present
          THEN /\ ev' = NoEvent
               /\ UNCHANGED <<queue, clock>>
          ELSE IF s.content_type = "absent"
          THEN /\ ev' = [op |-> "mode", user |-> u, val |-> "KeyError"]
               /\ UNCHANGED <<queue, clock>>
          ELSE /\ queue' = add_task_queue(queue, processing, u, s.content_type, s.mode, clock + 1)
               /\ clock' = IF queue' # queue THEN clock + 1 ELSE clock
               /\ ev' = [op |-> "add_task", user |-> u,
                         val |-> add_task_ret(queue, processing, u, queue')]
    /\ h' = NoHandler
    /\ UNCHANGED <<processing, user_states, wpc, task, handed, files>>
    /\ UNCHANGED postvars

\* edit_message_text raised: the handler ends before add_to_queue_direct
ModeCallbackAborted ==
    /\ h.op = "mode"
    /\ h' = NoHandler
    /\ ev' = NoEvent
    /\ UNCHANGED <<queue, processing, user_states, wpc, task, clock, handed, files>>
    /\ UNCHANGED postvars

\* cancel_command that also ends the owner's poll collection
CancelCommand_ends_collection(u) ==
    /\ h = NoHandler
    /\ queue' = clear_user_queue(queue, u)
    /\ processing' = clear_user_processing(processing, u)
    /\ user_states' = [user_states EXCEPT ![u] = NoState]
    /\ collections' = [collections EXCEPT ![u] = NoCollection]
    /\ ev' = NoEvent
    /\ UNCHANGED <<wpc, task, h, clock, handed, files>>
    /\ UNCHANGED <<buttons, poster, pdf_sessions, status_messages, csvrun, calls>>

\* cancel_command
CancelCommand(u) ==
    /\ h = NoHandler
    /\ queue' = clear_user_queue(queue, u)
    /\ processing' = clear_user_processing(processing, u)
    /\ user_states' = [user_states EXCEPT ![u] = NoState]
    /\ ev' = NoEvent
    /\ UNCHANGED <<wpc, task, h, clock, handed, files>>
    /\ UNCHANGED postvars

\* ---- worker loop (main.py) and content pipeline ----
\* lines 35-49: pop the head, mark the owner, enter process_content
WorkerDequeue ==
    /\ wpc = "idle"
    /\ queue # <<>>
    /\ task' = get_next_task(queue)
    /\ queue' = get_next_task_queue(queue)
    /\ processing' = set_processing(processing, get_next_task(queue).user_id, TRUE)
    /\ handed' = get_next_task(queue).timestamp
    /\ wpc' = "normalize"
    /\ ev' = [op |-> "dequeue", user |-> get_next_task(queue).user_id,
              val |-> get_next_task(queue).timestamp]
    /\ UNCHANGED <<user_states, h, clock, files>>
    /\ UNCHANGED postvars

\* lines 35-36, 56-57: nothing queued
WorkerEmpty ==
    /\ wpc = "idle"
    /\ queue = <<>>
    /\ queue' = get_next_task_queue(queue)
    /\ ev' = [op |-> "empty", user |-> get_next_task(queue).user_id, val |-> 0]
    /\ UNCHANGED <<processing, user_states, wpc, task, h, clock, handed, files>>
    /\ UNCHANGED postvars

\* the flag cleared after the call instead of in a finally clause
EndRun_no_finally(how) ==
    /\ processing' = IF how = "fault" THEN processing
                      ELSE set_processing(processing, task.user_id, FALSE)
    /\ wpc' = "idle"
    /\ task' = NoTask
    /\ ev' = [op |-> how, user |-> task.user_id, val |-> task.timestamp]

\* no except clause around process_content: the exception ends the coroutine
EndRun_uncaught(how) ==
    /\ processing' = set_processing(processing, task.user_id, FALSE)
    /\ wpc' = IF how = "fault" THEN "stopped" ELSE "idle"
    /\ task' = NoTask
    /\ ev' = [op |-> how, user |-> task.user_id, val |-> task.timestamp]

\* main.py 50-55: the except/finally around process_content, then the pause
EndRun(how) ==
    /\ processing' = set_processing(processing, task.user_id, FALSE)
    /\ wpc' = "idle"
    /\ task' = NoTask
    /\ ev' = [op |-> how, user |-> task.user_id, val |-> task.timestamp]

\* content_processor.py 65-66: an exception inside the try is reported
Caught == "report"

\* lines 19-24: status message and page images
PipelineNormalize(ok) ==
    /\ wpc = "normalize"
    /\ wpc' = IF ok THEN "extract" ELSE Caught
    /\ ev' = NoEvent
    /\ UNCHANGED <<queue, processing, user_states, task, h, clock, handed, files>>
    /\ UNCHANGED postvars

\* lines 32-47: extraction, then either "no questions" or the session
PipelineExtract(ok, n) ==
    /\ wpc = "extract"
    /\ IF ~ok THEN wpc' = Caught /\ user_states' = user_states
       ELSE IF n = 0 THEN wpc' = "nofound" /\ user_states' = user_states
       ELSE /\ wpc' = "notify"
            /\ user_states' = [user_states EXCEPT ![task.user_id] = GeneratedState(n)]
    /\ ev' = NoEvent
    /\ UNCHANGED <<queue, processing, task, h, clock, handed, files>>
    /\ UNCHANGED postvars

\* lines 34-35: "No questions found" was sent, or the edit raised
PipelineNoQuestions(ok) ==
    /\ wpc = "nofound"
    /\ IF ok THEN EndRun("return") /\ UNCHANGED <<queue, user_states, h, clock, handed, files>>
       ELSE /\ wpc' = Caught
            /\ ev' = NoEvent
            /\ UNCHANGED <<queue, processing, user_states, task, h, clock, handed, files>>
    /\ UNCHANGED postvars

\* lines 54-64: the document and the final status; f2 is the temporary directory
\* afterwards
PipelineNotifyWith(ok, f2) ==
    /\ wpc = "notify"
    /\ files' = f2
    /\ IF ok THEN EndRun("return") /\ UNCHANGED <<queue, user_states, h, clock, handed>>
       ELSE /\ wpc' = Caught
            /\ ev' = NoEvent
            /\ UNCHANGED <<queue, processing, user_states, task, h, clock, handed>>
    /\ UNCHANGED postvars

\* the same step with the temporary directory left out of the picture
PipelineNotify(ok) == PipelineNotifyWith(ok, files)

\* line 66: the error report; if it raises, the exception leaves process_content
PipelineReport(ok) ==
    /\ wpc = "report"
    /\ EndRun(IF ok THEN "return" ELSE "fault")
    /\ UNCHANGED <<queue, user_states, h, clock, handed, files>>
    /\ UNCHANGED postvars

Worker ==
    \/ WorkerDequeue
    \/ WorkerEmpty
    \/ \E ok \in BOOLEAN : PipelineNormalize(ok)
    \/ \E ok \in BOOLEAN : \E n \in QuestionCounts : PipelineExtract(ok, n)
    \/ \E ok \in BOOLEAN : PipelineNoQuestions(ok)
    \/ \E ok \in BOOLEAN : PipelineNotify(ok)
    \/ \E ok \in BOOLEAN : PipelineReport(ok)

Handlers ==
    \/ \E u \in Users : \E ct \in ContentTypes : HandleUpload(u, ct)
    \/ \E ok \in BOOLEAN : HandleUploadDone(ok)
    \/ \E u \in Users : \E m \in Modes : ModeCallback(u, m)
    \/ AddToQueueDirect
    \/ ModeCallbackAborted
    \/ \E u \in Users : CancelCommand(u)

Next == Worker \/ Handlers

Spec == Init /\ [][Next]_vars

\* the worker coroutine is always rescheduled and every await of a pipeline run returns
FairSpec == Spec /\ WF_vars(Worker)

\* ---- the same program with the temporary directory ----
\* handlers.py 295-296: the photo is written to TEMP_DIR/<user_id>_image.jpg
download_to_drive(f, u) == f \cup {u}

\* content_processor.py 62-64: the paths of the task are deleted if they exist
unlink_paths(f, u) == f \ {u}

HandleUploadDoneFile(ok) ==
    HandleUploadDoneWith(ok, IF ok THEN download_to_drive(files, h.user) ELSE files)

PipelineNotifyFile(ok) ==
    PipelineNotifyWith(ok, IF ok THEN unlink_paths(files, task.user_id) ELSE files)

FilesNext ==
    \/ \E u \in Users : \E ct \in ContentTypes : HandleUpload(u, ct)
    \/ \E ok \in BOOLEAN : HandleUploadDoneFile(ok)
    \/ \E u \in Users : \E m \in Modes : ModeCallback(u, m)
    \/ AddToQueueDirect
    \/ ModeCallbackAborted
    \/ \E u \in Users : CancelCommand(u)
    \/ WorkerDequeue
    \/ WorkerEmpty
    \/ \E ok \in BOOLEAN : PipelineNormalize(ok)
    \/ \E ok \in BOOLEAN : \E n \in QuestionCounts : PipelineExtract(ok, n)
    \/ \E ok \in BOOLEAN : PipelineNoQuestions(ok)
    \/ \E ok \in BOOLEAN : PipelineNotifyFile(ok)
    \/ \E ok \in BOOLEAN : PipelineReport(ok)

SpecFiles == Init /\ [][FilesNext]_vars

\* ---- posting (bot/callbacks.py, post_quizzes_to_destination) ----
\* the users who send CSV files and post
Posters == 1..NumPosters
\* the one owner of the settings, export and import flows: every piece of their state
\* is keyed by the owner, and handlers run one at a time
FlowUsers == {1}
\* lengths of the question list that CSVParser.parse_csv_file returns for a usable file
CsvCounts == {1, 2}

\* handlers.py 269-270: the session of a parsed CSV file; process_content stores the
\* same fields under a "gen_" id
CsvState(n, sid) ==
    [present |-> TRUE, content_type |-> "absent", mode |-> "absent", questions |-> n,
     session_id |-> sid, waiting_for |-> "none"]

Reply(op, u, val) == [op |-> op, user |-> u, val |-> val]

\* the batch handed to post_quizzes_batch: n questions, none attempted yet
NewBatch(n) == [total |-> n, log |-> <<>>, success |-> 0, failed |-> 0, done |-> FALSE]

\* a failed post that is not counted
post_one_uncounted(b, ok) ==
    [b EXCEPT !.log = Append(@, [q |-> Len(b.log) + 1, ok |-> ok]),
              !.success = IF ok THEN @ + 1 ELSE @]

\* one pass of the loop of post_quizzes_batch: the next question in source order is
\* posted; a failure is caught and counted
post_one(b, ok) ==
    [b EXCEPT !.log = Append(@, [q |-> Len(b.log) + 1, ok |-> ok]),
              !.success = IF ok THEN @ + 1 ELSE @,
              !.failed = IF ok THEN @ ELSE @ + 1]

\* the loop left at the first failure
batch_finished_abort(b) == Len(b.log) = b.total \/ b.failed > 0

\* the loop of post_quizzes_batch ends when the list is exhausted
batch_finished(b) == Len(b.log) = b.total

\* handle_csv: the file is parsed into n questions (n = 0: nothing usable)
HandleCsv(u, n) ==
    /\ h = NoHandler
    /\ IF user_states[u].present \/ is_processing(processing, u)
       THEN /\ ev' = Reply("csv", u, "TaskInProgress")
            /\ UNCHANGED <<user_states, buttons>>
       ELSE IF n = 0
       THEN /\ ev' = NoEvent
            /\ UNCHANGED <<user_states, buttons>>
       ELSE /\ buttons[u].post < MaxSessions
            /\ user_states' = [user_states EXCEPT ![u] = CsvState(n, buttons[u].post + 1)]
            /\ buttons' = [buttons EXCEPT ![u].post = @ + 1]
            /\ ev' = NoEvent
    /\ UNCHANGED <<queue, processing, wpc, task, h, clock, handed, files, poster>>
    /\ UNCHANGED sidevars

\* handle_callback, data = "post_<s>"; dests: the user has a channel or a group
PostCallback(u, s, dests) ==
    /\ h = NoHandler
    /\ s \in 1..buttons[u].post
    /\ IF ~user_states[u].present
       THEN /\ ev' = Reply("post", u, "SessionExpired")
            /\ buttons' = buttons
       ELSE IF ~dests
       THEN /\ ev' = Reply("post", u, "NoDestinations")
            /\ buttons' = buttons
       ELSE /\ ev' = Reply("post", u, "SelectDestination")
            /\ buttons' = [buttons EXCEPT ![u].dest = @ \cup {s}]
    /\ UNCHANGED <<queue, processing, user_states, wpc, task, h, clock, handed, files, poster>>
    /\ UNCHANGED sidevars

\* post_quizzes_to_destination 69-75, entered from a handler: "silent" is what the
\* caller shows when the call returns at line 70; a session without the key
\* 'questions' (an upload, a settings prompt) raises KeyError at line 72
StartPosting(op, u, dest, silent) ==
    IF ~user_states[u].present
    THEN /\ ev' = Reply(op, u, silent)
         /\ UNCHANGED <<h, poster>>
    ELSE IF user_states[u].questions = 0
    THEN /\ ev' = Reply(op, u, IF dest = "topic" THEN "InvalidTopicId" ELSE "fault")
         /\ UNCHANGED <<h, poster>>
    ELSE /\ h' = [op |-> "announce", user |-> u, arg |-> dest]
         /\ poster' = NewBatch(user_states[u].questions)
         /\ ev' = NoEvent

\* handle_callback, data = "dest_ch_<channel>_<s>"
DestChannel(u, s) ==
    /\ h = NoHandler
    /\ s \in buttons[u].dest
    /\ StartPosting("dest_ch", u, "channel", "Posting")
    /\ UNCHANGED <<queue, processing, user_states, wpc, task, clock, handed, files, buttons>>
    /\ UNCHANGED sidevars

\* handle_callback, data = "dest_gr_<group>_<s>"; ok: edit_message_text returned.
\* selected_group and post_session are stored as well: one group, and post_session
\* is never read
DestGroup(u, s, ok) ==
    /\ h = NoHandler
    /\ s \in buttons[u].dest
    /\ IF ~user_states[u].present
       THEN /\ ev' = Reply("dest_gr", u, "fault")
            /\ user_states' = user_states
       ELSE IF ~ok
       THEN /\ ev' = Reply("dest_gr", u, "fault")
            /\ user_states' = user_states
       ELSE /\ ev' = Reply("dest_gr", u, "SendTopicId")
            /\ user_states' = [user_states EXCEPT ![u].waiting_for = "topic_id"]
    /\ buttons' = [buttons EXCEPT ![u].asked = @ \/ (user_states[u].present /\ ok)]
    /\ UNCHANGED <<queue, processing, wpc, task, h, clock, handed, files, poster>>
    /\ UNCHANGED sidevars

\* callbacks.py 112, 116: the session that a settings button stores
SettingsState(kind) ==
    [present |-> TRUE, content_type |-> "absent", mode |-> "absent", questions |-> 0,
     waiting_for |-> kind]

\* the text is taken for a topic id whenever no other field is expected
waiting_for_any(st) ==
    IF "waiting_for" \in DOMAIN st /\ st.waiting_for # "none" THEN st.waiting_for
    ELSE "topic_id"

\* callbacks.py 153: user_states[user_id].get('waiting_for')
waiting_for(st) == IF "waiting_for" \in DOMAIN st THEN st.waiting_for ELSE "none"

\* pdf_exporter.py 61-67
start_pdf_export(ps, u, n) ==
    [ps EXCEPT ![u] = [present |-> TRUE, questions |-> n, waiting_for_name |-> TRUE,
                       waiting_for_format |-> FALSE]]

\* pdf_exporter.py 69-71
is_waiting_for_name(ps, u) == ps[u].present /\ ps[u].waiting_for_name

\* pdf_exporter.py 73-78
set_pdf_name(ps, u) ==
    IF ps[u].present
    THEN [ps EXCEPT ![u].waiting_for_name = FALSE, ![u].waiting_for_format = TRUE]
    ELSE ps

\* pdf_exporter.py 84-87
clear_session(ps, u) == [ps EXCEPT ![u] = NoPdfSession]

\* handle_text; valid: the text has the form its branch expects (an integer, or
\* "id name") and the reply that follows it was sent
TopicText(u, valid) ==
    /\ h = NoHandler
    /\ IF is_waiting_for_name(pdf_sessions, u)
       THEN /\ pdf_sessions' = set_pdf_name(pdf_sessions, u)
            /\ ev' = Reply("text", u, "ChooseFormat")
            /\ UNCHANGED <<h, poster, user_states, buttons>>
       ELSE /\ pdf_sessions' = pdf_sessions
            /\ buttons' = [buttons EXCEPT ![u].asked = FALSE]
            /\ IF ~user_states[u].present
               THEN /\ ev' = Reply("text", u, "ignored")
                    /\ UNCHANGED <<h, poster, user_states>>
               ELSE IF waiting_for(user_states[u]) \in {"add_channel", "add_group"}
               THEN /\ user_states' = IF valid THEN [user_states EXCEPT ![u] = NoState]
                                      ELSE user_states
                    /\ ev' = Reply("text", u, IF valid THEN "Added" ELSE "InvalidId")
                    /\ UNCHANGED <<h, poster>>
               ELSE IF waiting_for(user_states[u]) # "topic_id"
               THEN /\ ev' = Reply("text", u, "ignored")
                    /\ UNCHANGED <<h, poster, user_states>>
               ELSE IF ~valid
               THEN /\ ev' = Reply("text", u, "InvalidTopicId")
                    /\ UNCHANGED <<h, poster, user_states>>
               ELSE /\ StartPosting("text", u, "topic", "InvalidTopicId")
                    /\ user_states' = user_states
    /\ UNCHANGED <<queue, processing, wpc, task, clock, handed, files>>
    /\ UNCHANGED <<collections, status_messages, csvrun, calls>>

\* what the handler shows when an exception leaves post_quizzes_to_destination:
\* handle_callback lets it through, handle_text catches it (callbacks.py 190-191)
Raised(dest) == IF dest = "topic" THEN "InvalidTopicId" ELSE "fault"

\* content_processor.py 75: the status line "Posting n quizzes..."
PostAnnounce(ok) ==
    /\ h.op = "announce"
    /\ IF ok
       THEN /\ h' = [h EXCEPT !.op = "batch"]
            /\ ev' = NoEvent
            /\ poster' = poster
       ELSE /\ h' = NoHandler
            /\ ev' = Reply("posting", h.user, Raised(h.arg))
            /\ poster' = NoBatch
    /\ UNCHANGED <<queue, processing, user_states, wpc, task, clock, handed, files, buttons>>
    /\ UNCHANGED sidevars

\* post_quizzes_batch: one question is attempted
PosterPost(ok) ==
    /\ h.op = "batch"
    /\ ~batch_finished(poster)
    /\ poster' = post_one(poster, ok)
    /\ ev' = NoEvent
    /\ UNCHANGED <<queue, processing, user_states, wpc, task, h, clock, handed, files, buttons>>
    /\ UNCHANGED sidevars

\* post_quizzes_batch returns {success, failed}
PosterReturn ==
    /\ h.op = "batch"
    /\ batch_finished(poster)
    /\ poster' = [poster EXCEPT !.done = TRUE]
    /\ h' = [h EXCEPT !.op = "summary"]
    /\ ev' = NoEvent
    /\ UNCHANGED <<queue, processing, user_states, wpc, task, clock, handed, files, buttons>>
    /\ UNCHANGED sidevars

\* content_processor.py 89-92: the summary, then the session is deleted; back in
\* handle_text, line 189 deletes it again and the KeyError is caught at 190
PostSummary(ok) ==
    /\ h.op = "summary"
    /\ IF ok
       THEN /\ user_states' = [user_states EXCEPT ![h.user] = NoState]
            /\ ev' = Reply("posting", h.user,
                           IF h.arg = "topic" THEN "InvalidTopicId" ELSE "Complete")
       ELSE /\ user_states' = user_states
            /\ ev' = Reply("posting", h.user, Raised(h.arg))
    /\ h' = NoHandler
    /\ poster' = NoBatch
    /\ UNCHANGED <<queue, processing, wpc, task, clock, handed, files, buttons>>
    /\ UNCHANGED sidevars

PostNext ==
    \/ \E u \in Posters : \E n \in {0} \cup CsvCounts : HandleCsv(u, n)
    \/ \E u \in Posters : \E s \in 1..MaxSessions : \E dests \in BOOLEAN : PostCallback(u, s, dests)
    \/ \E u \in Posters : \E s \in 1..MaxSessions : DestChannel(u, s)
    \/ \E u \in Posters : \E s \in 1..MaxSessions : \E ok \in BOOLEAN : DestGroup(u, s, ok)
    \/ \E u \in Posters : \E valid \in BOOLEAN : TopicText(u, valid)
    \/ \E ok \in BOOLEAN : PostAnnounce(ok)
    \/ \E ok \in BOOLEAN : PosterPost(ok)
    \/ PosterReturn
    \/ \E ok \in BOOLEAN : PostSummary(ok)
    \/ \E u \in Posters : CancelCommand(u)

PostSpec == Init /\ [][PostNext]_vars

\* ---- posting together with the settings prompts and the PDF export ----
\* handle_callback, data = "settings_add_channel" / "settings_add_group"; ok:
\* edit_message_text returned
SettingsAdd(u, kind, ok) ==
    /\ h = NoHandler
    /\ user_states' = IF ok THEN [user_states EXCEPT ![u] = SettingsState(kind)]
                      ELSE user_states
    /\ ev' = Reply("settings", u, IF ok THEN "Send" ELSE "fault")
    /\ UNCHANGED <<queue, processing, wpc, task, h, clock, handed, files, buttons, poster>>
    /\ UNCHANGED sidevars

\* handle_callback, data = "export_pdf_<s>" / "csv_to_pdf_<s>", with
\* handle_pdf_export_start
ExportCallback(u, s) ==
    /\ h = NoHandler
    /\ s \in 1..buttons[u].post
    /\ IF ~user_states[u].present
       THEN /\ ev' = Reply("export", u, "SessionExpired")
            /\ pdf_sessions' = pdf_sessions
       ELSE IF user_states[u].questions = 0
       THEN /\ ev' = Reply("export", u, "NoQuestions")
            /\ pdf_sessions' = pdf_sessions
       ELSE /\ ev' = Reply("export", u, "SendPdfName")
            /\ pdf_sessions' = start_pdf_export(pdf_sessions, u, user_states[u].questions)
    /\ UNCHANGED <<queue, processing, user_states, wpc, task, h, clock, handed, files,
                   buttons, poster, collections, status_messages, csvrun, calls>>

\* handle_format_selection, pressed on the keyboard that followed the name; how:
\* the document was sent, the generation failed, or the first edit raised
FormatCallback(u, how) ==
    /\ h = NoHandler
    /\ pdf_sessions[u].present /\ pdf_sessions[u].waiting_for_format
    /\ pdf_sessions' = IF how = "raised" THEN pdf_sessions ELSE clear_session(pdf_sessions, u)
    /\ ev' = Reply("format", u, how)
    /\ UNCHANGED <<queue, processing, user_states, wpc, task, h, clock, handed, files,
                   buttons, poster, collections, status_messages, csvrun, calls>>

FlowNext ==
    \/ \E u \in FlowUsers : \E n \in {0} \cup CsvCounts : HandleCsv(u, n)
    \/ \E u \in FlowUsers : \E s \in 1..MaxSessions : \E dests \in BOOLEAN : PostCallback(u, s, dests)
    \/ \E u \in FlowUsers : \E s \in 1..MaxSessions : DestChannel(u, s)
    \/ \E u \in FlowUsers : \E s \in 1..MaxSessions : \E ok \in BOOLEAN : DestGroup(u, s, ok)
    \/ \E u \in FlowUsers : \E valid \in BOOLEAN : TopicText(u, valid)
    \/ \E ok \in BOOLEAN : PostAnnounce(ok)
    \/ \E ok \in BOOLEAN : PosterPost(ok)
    \/ PosterReturn
    \/ \E ok \in BOOLEAN : PostSummary(ok)
    \/ \E u \in FlowUsers : CancelCommand(u)
    \/ \E u \in FlowUsers : \E kind \in {"add_channel", "add_group"} : \E ok \in BOOLEAN :
           SettingsAdd(u, kind, ok)
    \/ \E u \in FlowUsers : \E s \in 1..MaxSessions : ExportCallback(u, s)
    \/ \E u \in FlowUsers : \E how \in {"sent", "error", "raised"} : FormatCallback(u, how)

FlowSpec == Init /\ [][FlowNext]_vars

\* ---- post_quizzes_batch on its own, for every list length ----
PosterInit ==
    /\ queue = <<>>
    /\ processing = {}
    /\ user_states = [u \in Users |-> NoState]
    /\ wpc = "idle"
    /\ task = NoTask
    /\ h = [op |-> "batch", user |-> 0, arg |-> "channel"]
    /\ clock = 0
    /\ handed = 0
    /\ files = {}
    /\ buttons = [u \in Users |-> NoButtons]
    /\ poster \in {NewBatch(n) : n \in 0..MaxQuestions}
    /\ pdf_sessions = [u \in Users |-> NoPdfSession]
    /\ collections = [u \in Users |-> NoCollection]
    /\ status_messages = {}
    /\ csvrun = NoCsvRun
    /\ calls = <<>>
    /\ ev = NoEvent

PosterNext ==
    \/ \E ok \in BOOLEAN : PosterPost(ok)
    \/ PosterReturn

PosterSpec == PosterInit /\ [][PosterNext]_vars

\* ---- the queue and the worker with every kind of upload ----
\* handle_photo with its reply "Task in progress."
HandleUploadSeen(u, ct) == HandleUploadWith(u, ct, Reply("upload", u, "TaskInProgress"))

UploadNext ==
    \/ \E u \in Posters : \E ct \in ContentTypes : HandleUploadSeen(u, ct)
    \/ \E ok \in BOOLEAN : HandleUploadDone(ok)
    \/ \E u \in FlowUsers : \E n \in {0} \cup CsvCounts : HandleCsv(u, n)
    \/ \E u \in Posters : \E m \in Modes : ModeCallback(u, m)
    \/ AddToQueueDirect
    \/ ModeCallbackAborted
    \/ \E u \in Posters : CancelCommand(u)
    \/ Worker

UploadSpec == Init /\ [][UploadNext]_vars

\* ---- flows that are started and then left alone ----
\* the owners upload or import and send nothing further: no mode is chosen, nothing
\* is posted or cancelled; the worker loop keeps polling the queue
AbandonNext ==
    \/ \E u \in Users : \E ct \in ContentTypes : HandleUpload(u, ct)
    \/ \E ok \in BOOLEAN : HandleUploadDone(ok)
    \/ \E u \in Posters : \E n \in {0} \cup CsvCounts : HandleCsv(u, n)
    \/ WorkerEmpty

\* the event loop keeps running: the worker is rescheduled and a download returns
AbandonSpec ==
    /\ Init
    /\ [][AbandonNext]_vars
    /\ WF_vars(WorkerEmpty)
    /\ WF_vars(\E ok \in BOOLEAN : HandleUploadDone(ok))

\* ---- properties ----
Tasks(u) == {i \in 1..Len(queue) : queue[i].user_id = u}
InFlight(u) == wpc # "idle" /\ task.user_id = u
Queued(ts) == \E i \in 1..Len(queue) : queue[i].timestamp = ts
DequeueStep == wpc = "idle" /\ wpc' # "idle"
AddStep == h.op = "mode" /\ ev'.op = "add_task"

\* C1: the queue holds at most one task per owner, and an owner who is marked
\* processing has no task in the queue.
C1_OneTaskPerOwner ==
    \A u \in Users :
        /\ Cardinality(Tasks(u)) <= 1
        /\ u \in processing => Tasks(u) = {}

C1_Witness == processing # {} /\ queue # <<>>

\* C2: an enqueue for an owner whose task is queued or in flight in the worker is
\* never accepted, so no owner has a task in flight and a task queued at once.
C2_NoSecondTask ==
    /\ \A u \in Users : ~(InFlight(u) /\ Tasks(u) # {})
    /\ (ev.op = "add_task" /\ InFlight(ev.user)) => ev.val = -2

\* C3: the step in which the worker takes an owner's task off the queue also marks
\* the owner processing, so that an enqueue for that owner is refused right after it.
C3_AtomicTransition ==
    [][DequeueStep =>
          /\ task'.user_id \in processing'
          /\ add_task_check(queue', processing', task'.user_id) = -2]_vars

C3_Witness == wpc = "normalize" /\ task.user_id \in processing /\ Tasks(task.user_id) = {}

\* C4: the queue is never longer than the capacity, and an enqueue at capacity for
\* an owner with no queued or processing task returns -1 (QueueFull).
C4_Capacity ==
    [][/\ Len(queue') <= MAX_QUEUE_SIZE
       /\ (AddStep /\ Len(queue) >= MAX_QUEUE_SIZE /\ Tasks(h.user) = {}
              /\ h.user \notin processing)
            => (ev'.val = -1 /\ queue' = queue)]_vars

C4_Witness == ev.op = "add_task" /\ ev.val = -1 /\ Len(queue) = MAX_QUEUE_SIZE

\* C5: an accepted enqueue appends the task at the tail and returns the length of
\* the queue after the append, which is the owner's position right afterwards.
C5_TailPosition ==
    [][(AddStep /\ ev'.val \notin {-1, -2}) =>
          /\ Len(queue') = Len(queue) + 1
          /\ SubSeq(queue', 1, Len(queue)) = queue
          /\ queue'[Len(queue')].user_id = ev'.user
          /\ ev'.val = Len(queue')
          /\ get_position(queue', ev'.user) = ev'.val]_vars

C5_Witness == ev.op = "add_task" /\ ev.val = 2 /\ Len(queue) = 2

\* C6: the worker always takes the head, which is the task accepted earliest among
\* those queued and later than every task taken before; on an empty queue the poll
\* returns nothing and changes nothing.
C6_Fifo ==
    [][/\ DequeueStep =>
            /\ task' = Head(queue)
            /\ queue' = Tail(queue)
            /\ \A i \in 1..Len(queue') : task'.timestamp < queue'[i].timestamp
            /\ handed < task'.timestamp
       /\ (wpc = "idle" /\ queue = <<>> /\ ev'.op = "empty") =>
            /\ ev'.user = NoTask.user_id
            /\ UNCHANGED <<queue, processing, user_states, wpc, task, h, clock, handed, files>>]_vars

C6_Witness == wpc = "normalize" /\ handed = 2 /\ queue # <<>>

\* C7: positions grow strictly with the enqueue order of the queued tasks, are at
\* least 1 for a queued owner, and are 0 for an owner with no queued task and for
\* the owner whose task was just dequeued.
PositionsOrdered ==
    /\ \A i, j \in 1..Len(queue) :
          i < j => /\ queue[i].timestamp < queue[j].timestamp
                   /\ get_position(queue, queue[i].user_id)
                          < get_position(queue, queue[j].user_id)
    /\ \A u \in Users : (Tasks(u) = {}) <=> (get_position(queue, u) = 0)
    /\ \A i \in 1..Len(queue) : get_position(queue, queue[i].user_id) = i

C7_Positions ==
    [][/\ PositionsOrdered'
       /\ DequeueStep => get_position(queue', task'.user_id) = 0]_vars

C7_Witness ==
    /\ Len(queue) = 2
    /\ get_position(queue, queue[1].user_id) = 1
    /\ get_position(queue, queue[2].user_id) = 2
    /\ wpc # "idle" /\ get_position(queue, task.user_id) = 0

\* C8: whenever the worker is between two tasks no owner is marked processing, and
\* whenever an owner is marked processing a state follows in which none is.
C8_FlagCleared ==
    /\ [](wpc = "idle" => processing = {})
    /\ (processing # {}) ~> (processing = {})

C8_Witness == ev.op \in {"return", "fault"} /\ ev.user \notin processing /\ clock = 1

\* C9: after a fault of the content pipeline the worker loop is at the top of its
\* loop again, and it goes on to dequeue a task that is still queued.
C9_LoopSurvives ==
    /\ [](ev.op = "fault" => wpc = "idle")
    /\ (ev.op = "fault" /\ queue # <<>>) ~> (ev.op = "dequeue" \/ queue = <<>>)

C9_Witness == ev.op = "fault" /\ wpc = "idle" /\ queue # <<>>

\* C10: every queued task is eventually handed to the content pipeline, unless it
\* is evicted from the queue before the worker reaches it.
C10_Drained ==
    \A ts \in 1..MaxTasks :
        Queued(ts) ~> \/ wpc = "normalize" /\ task.timestamp = ts
                      \/ ~Queued(ts) /\ handed < ts

C10_Witness == wpc = "normalize" /\ task.timestamp = 3

\* C11: the step that carries out a cancel leaves the owner with no queued task,
\* not marked processing and without a session.
C11_CancelClears ==
    [][\A u \in Users : CancelCommand(u) =>
          /\ ~InQueue(queue', u)
          /\ ~is_processing(processing', u)
          /\ ~user_states'[u].present]_vars

C11_Witness ==
    /\ wpc # "idle" /\ task.user_id \notin processing
    /\ ~user_states[task.user_id].present /\ Tasks(task.user_id) = {}

\* C12: when the owner of the task in flight has cancelled, the step in which the
\* pipeline finishes extraction leaves the session map as it is.
C12_ResultDiscarded ==
    [][(wpc = "extract" /\ wpc' = "notify" /\ task.user_id \notin processing)
          => user_states' = user_states]_vars

\* C13: a cancel removes exactly the owner's task from the queue, keeping the other
\* tasks in their order, and removes exactly the owner from the processing set.
C13_EvictFrame ==
    [][\A u \in Users : CancelCommand(u) =>
          /\ queue' = SelectSeq(queue, LAMBDA t : t.user_id # u)
          /\ Len(queue') >= Len(queue) - 1
          /\ processing' = processing \ {u}]_vars

C13_Witness ==
    /\ clock = 2 /\ handed = 0 /\ processing = {}
    /\ Len(queue) = 1 /\ queue[1].timestamp = 2

\* C14: when a pipeline run ends with "No questions found", the owner of the task
\* has no session afterwards.
C14_NoSessionAfterNoQuestions ==
    [][(wpc = "nofound" /\ wpc' = "idle") => ~user_states'[task.user_id].present]_vars

\* C15: when a pipeline run ends, however it ends, the downloaded input of its task
\* no longer exists.
C15_InputsReleased ==
    [][(wpc # "idle" /\ wpc' = "idle") => task.user_id \notin files']_vars

\* a destination-selection step of user u: the channel button, the group button or
\* the text sent after a topic id was asked for
DestinationInput(u) ==
    \/ \E s \in 1..MaxSessions : DestChannel(u, s)
    \/ \E s \in 1..MaxSessions : \E ok \in BOOLEAN : DestGroup(u, s, ok)
    \/ buttons[u].asked /\ \E valid \in BOOLEAN : TopicText(u, valid)

\* C16: a destination-selection input of an owner who has no session is answered
\* with SessionExpired; nothing is posted, nothing changes and no fault is raised
C16_ExpiredReply ==
    [][\A u \in Users : (DestinationInput(u) /\ ~user_states[u].present) =>
          /\ ev'.val = "SessionExpired"
          /\ user_states' = user_states
          /\ poster' = poster
          /\ h' = NoHandler]_vars

\* C17: a post or destination button that carries another session id than the
\* owner's current one is answered with SessionExpired and leaves the session alone
C17_StaleButton ==
    [][\A u \in Users : \A s \in 1..MaxSessions :
          (/\ user_states[u].present
           /\ user_states[u].session_id # s
           /\ \/ \E dests \in BOOLEAN : PostCallback(u, s, dests)
              \/ DestChannel(u, s)
              \/ \E ok \in BOOLEAN : DestGroup(u, s, ok))
          => /\ ev'.val = "SessionExpired"
             /\ user_states' = user_states
             /\ buttons' = buttons
             /\ h' = NoHandler]_vars

\* C18: the result of the posting pipeline satisfies success + failed = len(questions)
\* for every question list, the empty one included
C18_CountsAddUp ==
    poster.done => poster.success + poster.failed = poster.total

C18_Witness ==
    poster.done /\ poster.total = 0 /\ poster.success = 0 /\ poster.failed = 0

\* C19: the questions are attempted one by one in source order, each once, and the
\* pipeline returns only when all of them were attempted, whatever failed before
C19_NoEarlyAbort ==
    /\ \A i \in 1..Len(poster.log) : poster.log[i].q = i
    /\ Len(poster.log) <= poster.total
    /\ poster.done => Len(poster.log) = poster.total
    /\ poster.success = Cardinality({i \in 1..Len(poster.log) : poster.log[i].ok})
    /\ poster.failed = Cardinality({i \in 1..Len(poster.log) : ~poster.log[i].ok})

C19_Witness ==
    /\ poster.done
    /\ poster.total = 5
    /\ Len(poster.log) = 5
    /\ \A i \in 1..5 : poster.log[i].ok <=> i # 3
    /\ poster.success = 4
    /\ poster.failed = 1

\* C20: when a posting flow that was started with a session ends, its owner has no
\* session
C20_SessionConsumed ==
    [][(h.op \in {"announce", "batch", "summary"} /\ h'.op = "none")
          => ~user_states'[h.user].present]_vars

\* what a session holds: an upload or pending questions
Payload(st) == <<st.content_type, st.questions>>
Holds(st) == st.present /\ (st.content_type # "absent" \/ st.questions > 0)
Replaced(u) ==
    ~user_states'[u].present \/ Payload(user_states'[u]) # Payload(user_states[u])

\* C21: a session that holds an upload or questions is destroyed or replaced only by
\* the end of posting or by a cancel of its owner
C21_SessionKept ==
    [][\A u \in Users : (Holds(user_states[u]) /\ Replaced(u)) =>
          \/ CancelCommand(u)
          \/ h.user = u /\ \E ok \in BOOLEAN : PostSummary(ok)]_vars

\* no input field is expected from user u
NothingExpected(u) ==
    /\ ~(pdf_sessions[u].present /\ pdf_sessions[u].waiting_for_name)
    /\ \/ ~user_states[u].present
       \/ "waiting_for" \notin DOMAIN user_states[u]
       \/ user_states[u].waiting_for = "none"

\* C24: a text message from an owner from whom no input is expected changes no
\* session, queue, processing or export state and gets no error reply
C24_TextNoOp ==
    [][\A u \in Users : \A valid \in BOOLEAN : (TopicText(u, valid) /\ NothingExpected(u)) =>
          /\ UNCHANGED <<user_states, queue, processing, pdf_sessions, h, poster>>
          /\ ev'.val = "ignored"]_vars

C24_Witness ==
    /\ ev.op = "text"
    /\ ev.val = "ignored"
    /\ user_states[ev.user].present
    /\ pdf_sessions[ev.user].present

\* C25: the expected-input field of the session and the export's name prompt are
\* never pending together for one owner
C25_OneExpectedInput ==
    \A u \in Users :
        ~(/\ pdf_sessions[u].present /\ pdf_sessions[u].waiting_for_name
          /\ user_states[u].present
          /\ "waiting_for" \in DOMAIN user_states[u]
          /\ user_states[u].waiting_for # "none")

\* C22: a session whose flow is abandoned is eventually destroyed
C22_AbandonedExpires ==
    \A u \in Users : user_states[u].present ~> ~user_states[u].present

\* an upload of user u arrives: a photo or document, or a CSV file
UploadStep(u) ==
    \/ \E ct \in ContentTypes : HandleUploadSeen(u, ct)
    \/ \E n \in {0} \cup CsvCounts : HandleCsv(u, n)

\* C23: an upload from an owner who has a session or is marked processing is answered
\* with "task in progress" and changes neither the sessions, the queue nor the
\* processing set, and no download is started
C23_UploadRejected ==
    [][\A u \in Users :
          ((user_states[u].present \/ is_processing(processing, u)) /\ UploadStep(u)) =>
             /\ ev'.op \in {"upload", "csv"}
             /\ ev'.val = "TaskInProgress"
             /\ ev'.user = u
             /\ UNCHANGED <<user_states, queue, processing, h>>]_vars

C23_Witness ==
    /\ ev.op = "upload"
    /\ ev.val = "TaskInProgress"
    /\ is_processing(processing, ev.user)
    /\ h = NoHandler

\* ---------------------------------------------------------------------------
\* CSV files: CSVGenerator.questions_to_csv and CSVParser.parse_csv_file
\* ---------------------------------------------------------------------------

MaxRows == 1          \* questions in a list, rows in a file
MinOptions == 2       \* parse_csv_file: a row with fewer options is skipped
OptionColumns == 5    \* the columns option1 .. option5

\* the texts of a question: empty, plain, and one with leading whitespace
Texts == {"", "q", " q"}
OptionTexts == {"", "a"}

\* str.strip on the texts of the model
strip(t) == IF t = " " THEN "" ELSE IF t = " q" THEN "q" ELSE t

\* a cell of the answer column: absent from the row, the empty string, a text
\* that is no numeral, or the decimal numeral of num
AnswerNums == {-1, 0, 2, 6}
AnswerCells ==
    [k : {"missing", "empty", "junk"}, num : {0}] \cup [k : {"numeral"}, num : AnswerNums]
Numeral(n) == [k |-> "numeral", num |-> n]
EmptyCell == [k |-> "empty", num |-> 0]

Min(a, b) == IF a < b THEN a ELSE b
Max(a, b) == IF a > b THEN a ELSE b

OptionLists == UNION {[1..n -> OptionTexts] : n \in MinOptions..OptionColumns}
Questions == [text : Texts, options : OptionLists, correct_index : 0..(OptionColumns - 1)]
ValidQuestion(q) ==
    /\ Len(q.options) \in MinOptions..OptionColumns
    /\ q.correct_index \in 0..(Len(q.options) - 1)
ValidQuestions == {q \in Questions : ValidQuestion(q)}
QuestionLists == UNION {[1..n -> ValidQuestions] : n \in 0..MaxRows}

CsvRows == [questions : {"", " ", "q"}, options : [1..OptionColumns -> OptionTexts],
            answer : AnswerCells]
CsvFiles == UNION {[1..n -> CsvRows] : n \in 0..MaxRows}

\* questions_to_csv pads the option list of the question itself
RECURSIVE pad(_)
pad(opts) == IF Len(opts) < OptionColumns THEN pad(Append(opts, "")) ELSE opts

\* the row questions_to_csv writes for question q
to_row(q) ==
    [questions |-> q.text,
     options |-> SubSeq(pad(q.options), 1, OptionColumns),
     answer |-> IF q.correct_index >= 0 THEN Numeral(q.correct_index + 1) ELSE EmptyCell]

\* int(row.get('answer', '1')) and the clamp; any failure of int gives 0
correct_index_unclamped(cell, n) ==
    IF cell.k = "missing" THEN Min(0, n - 1)
    ELSE IF cell.k = "numeral" THEN Min(cell.num - 1, n - 1)
    ELSE 0

correct_index_of(cell, n) ==
    IF cell.k = "missing" THEN Max(0, Min(0, n - 1))
    ELSE IF cell.k = "numeral" THEN Max(0, Min(cell.num - 1, n - 1))
    ELSE 0

row_options(row) == SelectSeq(row.options, LAMBDA c : c # "")

\* the rows parse_csv_file skips
skipped(row) == row.questions = "" \/ Len(row_options(row)) < MinOptions

parse_row(row) ==
    [text |-> strip(row.questions),
     options |-> row_options(row),
     correct_index |-> correct_index_of(row.answer, Len(row_options(row)))]

RECURSIVE parse_csv_file(_)
parse_csv_file(rows) ==
    IF rows = <<>> THEN <<>>
    ELSE IF skipped(Head(rows)) THEN parse_csv_file(Tail(rows))
    ELSE <<parse_row(Head(rows))>> \o parse_csv_file(Tail(rows))

\* questions_to_csv(questions, path): writes one row per question and leaves the
\* caller's questions with their option lists padded
QuestionsToCsv ==
    /\ csvrun.step = "given"
    /\ csvrun' = [csvrun EXCEPT
           !.step = "written",
           !.rows = [i \in DOMAIN csvrun.questions |-> to_row(csvrun.questions[i])],
           !.questions = [i \in DOMAIN csvrun.questions |->
                             [csvrun.questions[i] EXCEPT !.options = pad(@)]]]
    /\ UNCHANGED <<queue, processing, user_states, wpc, task, h, clock, handed, files,
                   buttons, poster, pdf_sessions, collections, status_messages, calls, ev>>

\* parse_csv_file(content)
ParseCsvFile ==
    /\ csvrun.step = "written"
    /\ csvrun' = [csvrun EXCEPT !.step = "parsed", !.parsed = parse_csv_file(csvrun.rows)]
    /\ UNCHANGED <<queue, processing, user_states, wpc, task, h, clock, handed, files,
                   buttons, poster, pdf_sessions, collections, status_messages, calls, ev>>

CsvInitWith(run) ==
    /\ queue = <<>>
    /\ processing = {}
    /\ user_states = [u \in Users |-> NoState]
    /\ wpc = "get"
    /\ task = NoTask
    /\ h = NoHandler
    /\ clock = 0
    /\ handed = {}
    /\ files = {}
    /\ buttons = [u \in Users |-> NoButtons]
    /\ poster = NoBatch
    /\ pdf_sessions = [u \in Users |-> NoPdfSession]
    /\ collections = [u \in Users |-> NoCollection]
    /\ status_messages = {}
    /\ ev = NoEvent
    /\ csvrun = run
    /\ calls = <<>>

\* a list of valid questions is written to a file and the file is parsed
RoundTripInit ==
    \E qs \in QuestionLists :
        CsvInitWith([step |-> "given", given |-> qs, questions |-> qs,
                     rows |-> <<>>, parsed |-> <<>>])
RoundTripNext == QuestionsToCsv \/ ParseCsvFile
RoundTripSpec == RoundTripInit /\ [][RoundTripNext]_vars

\* a file of any rows is parsed
ParseInit ==
    \E rows \in CsvFiles :
        CsvInitWith([step |-> "written", given |-> <<>>, questions |-> <<>>,
                     rows |-> rows, parsed |-> <<>>])
ParseNext == ParseCsvFile
ParseSpec == ParseInit /\ [][ParseNext]_vars

SameQuestion(a, b) ==
    a.text = b.text /\ a.options = b.options /\ a.correct_index = b.correct_index

\* C26: a list of valid questions written with questions_to_csv and parsed with
\* parse_csv_file comes back with the same texts, options and correct indexes
C26_RoundTrip ==
    csvrun.step = "parsed" /\ csvrun.given # <<>> =>
        /\ Len(csvrun.parsed) = Len(csvrun.given)
        /\ \A i \in DOMAIN csvrun.given : SameQuestion(csvrun.parsed[i], csvrun.given[i])

\* C27: every question parse_csv_file returns has 2 to 5 options and a correct
\* index inside them, whatever the answer cell holds, and no row with fewer than
\* 2 non-empty options is returned
C27_ParsedValid ==
    csvrun.step = "parsed" =>
        /\ \A i \in DOMAIN csvrun.parsed : ValidQuestion(csvrun.parsed[i])
        /\ Len(csvrun.parsed) =
              Cardinality({i \in DOMAIN csvrun.rows :
                  /\ csvrun.rows[i].questions # ""
                  /\ Cardinality({j \in 1..OptionColumns : csvrun.rows[i].options[j] # ""})
                        >= MinOptions})

C27_Witness ==
    /\ csvrun.step = "parsed"
    /\ csvrun.given = <<>>
    /\ Len(csvrun.parsed) = 1
    /\ csvrun.rows[1].answer = Numeral(0)
    /\ Len(csvrun.parsed[1].options) = 3
    /\ csvrun.parsed[1].correct_index = 0

\* ---------------------------------------------------------------------------
\* Poll collection (processors/poll_collector.py)
\* ---------------------------------------------------------------------------

MaxPolls == 2         \* polls one owner sends before clearing or stopping

\* a poll as it arrives: its type, the number of its options, and the correct
\* option id, which is the empty set when the poll carries none
PollOptionCounts == {2}
Polls ==
    {p \in [type : {"quiz", "regular"}, options : PollOptionCounts,
            correct_option_id : {{}} \cup {{i} : i \in 0..2}] :
        /\ \A i \in p.correct_option_id : i < p.options
        /\ p.type = "regular" => p.correct_option_id = {}}

is_collecting(c, u) == c[u].present
start_collection(c, u) == [c EXCEPT ![u] = [present |-> TRUE, polls |-> <<>>]]
get_count(c, u) == Len(c[u].polls)

\* stop_collection that leaves the status message behind
stop_collection_status_kept(c, sm, u) == <<[c EXCEPT ![u] = NoCollection], sm>>

\* stop_collection: both dicts lose the owner's key
stop_collection(c, sm, u) == <<[c EXCEPT ![u] = NoCollection], sm \ {u}>>

\* the entry add_poll stores for a poll
poll_data(poll) ==
    [options |-> poll.options,
     correct_index |->
        IF poll.type = "quiz"
        THEN IF poll.correct_option_id # {}
             THEN CHOOSE i \in poll.correct_option_id : TRUE
             ELSE 0
        ELSE -1]

\* add_poll that opens a collection for an owner who has none
add_poll_opening(c, u, poll) ==
    [c EXCEPT ![u] = [present |-> TRUE, polls |-> Append(c[u].polls, poll_data(poll))]]

add_poll(c, u, poll) ==
    IF ~c[u].present THEN c ELSE [c EXCEPT ![u].polls = Append(@, poll_data(poll))]

\* the value add_poll returns: 0 without a collection, else the new count
add_poll_ret(c, u, poll) == IF ~c[u].present THEN 0 ELSE get_count(add_poll(c, u, poll), u)

\* clear_polls that forgets the owner
clear_polls_forget(c, u) == [c EXCEPT ![u] = NoCollection]

\* clear_polls: the list is replaced by an empty one, the key stays
clear_polls(c, u) == IF c[u].present THEN [c EXCEPT ![u].polls = <<>>] ELSE c

\* handle_start_command up to the reply: a running collection is only shown
CollectStart(u) ==
    /\ h = NoHandler
    /\ IF is_collecting(collections, u)
       THEN /\ ev' = Reply("collect", u, get_count(collections, u))
            /\ UNCHANGED <<collections, h>>
       ELSE /\ collections' = start_collection(collections, u)
            /\ h' = [op |-> "collect", user |-> u, arg |-> "none"]
            /\ ev' = NoEvent
    /\ UNCHANGED <<queue, processing, user_states, wpc, task, clock, handed, files,
                   buttons, poster, pdf_sessions, status_messages, csvrun, calls>>

\* handle_start_command after the reply: the message id is kept unless the reply failed
CollectStartDone(ok) ==
    /\ h.op = "collect"
    /\ status_messages' = IF ok THEN status_messages \cup {h.user} ELSE status_messages
    /\ ev' = Reply("collect", h.user, IF ok THEN 0 ELSE -1)
    /\ h' = NoHandler
    /\ UNCHANGED <<queue, processing, user_states, wpc, task, clock, handed, files,
                   buttons, poster, pdf_sessions, collections, csvrun, calls>>

\* handle_poll_message
PollMessage(u, poll) ==
    /\ h = NoHandler
    /\ get_count(collections, u) < MaxPolls
    /\ collections' = add_poll(collections, u, poll)
    /\ ev' = IF is_collecting(collections, u)
             THEN Reply("poll", u, get_count(collections', u))
             ELSE NoEvent
    /\ UNCHANGED <<queue, processing, user_states, wpc, task, h, clock, handed, files,
                   buttons, poster, pdf_sessions, status_messages, csvrun, calls>>

\* handle_export_csv_callback: the file is built from a cleaned copy and sent
PollExportCsv(u, ok) ==
    /\ h = NoHandler
    /\ ev' = IF get_count(collections, u) = 0 THEN Reply("poll_export_csv", u, 0)
             ELSE IF ok THEN Reply("poll_export_csv", u, get_count(collections, u))
             ELSE Reply("poll_export_csv", u, -1)
    /\ UNCHANGED <<queue, processing, user_states, wpc, task, h, clock, handed, files,
                   buttons, poster, pdf_sessions, collections, status_messages, csvrun, calls>>

\* handle_export_pdf_callback
PollExportPdf(u) ==
    /\ h = NoHandler
    /\ IF get_count(collections, u) = 0
       THEN /\ ev' = Reply("poll_export_pdf", u, 0)
            /\ pdf_sessions' = pdf_sessions
       ELSE /\ ev' = Reply("poll_export_pdf", u, get_count(collections, u))
            /\ pdf_sessions' = start_pdf_export(pdf_sessions, u, get_count(collections, u))
    /\ UNCHANGED <<queue, processing, user_states, wpc, task, h, clock, handed, files,
                   buttons, poster, collections, status_messages, csvrun, calls>>

\* handle_clear_callback; the event carries the count before the clear
PollClear(u) ==
    /\ h = NoHandler
    /\ collections' = clear_polls(collections, u)
    /\ ev' = Reply("poll_clear", u, get_count(collections, u))
    /\ UNCHANGED <<queue, processing, user_states, wpc, task, h, clock, handed, files,
                   buttons, poster, pdf_sessions, status_messages, csvrun, calls>>

\* handle_stop_callback; the event carries the final count
PollStop(u) ==
    /\ h = NoHandler
    /\ collections' = stop_collection(collections, status_messages, u)[1]
    /\ status_messages' = stop_collection(collections, status_messages, u)[2]
    /\ ev' = Reply("poll_stop", u, get_count(collections, u))
    /\ UNCHANGED <<queue, processing, user_states, wpc, task, h, clock, handed, files,
                   buttons, poster, pdf_sessions, csvrun, calls>>

\* the collection of one owner next to that owner's uploads, queue activity and
\* cancels
PollNext ==
    \/ \E u \in FlowUsers : CollectStart(u)
    \/ \E ok \in BOOLEAN : CollectStartDone(ok)
    \/ \E u \in FlowUsers : \E poll \in Polls : PollMessage(u, poll)
    \/ \E u \in FlowUsers : \E ok \in BOOLEAN : PollExportCsv(u, ok)
    \/ \E u \in FlowUsers : PollExportPdf(u)
    \/ \E u \in FlowUsers : PollClear(u)
    \/ \E u \in FlowUsers : PollStop(u)
    \/ \E u \in FlowUsers : \E ct \in ContentTypes : HandleUpload(u, ct)
    \/ \E ok \in BOOLEAN : HandleUploadDone(ok)
    \/ \E u \in FlowUsers : \E m \in Modes : ModeCallback(u, m)
    \/ AddToQueueDirect
    \/ ModeCallbackAborted
    \/ \E u \in FlowUsers : CancelCommand(u)
    \/ Worker

PollSpec == Init /\ [][PollNext]_vars

\* C28: every entry of a collection has a correct index inside its options
C28_EntriesValid ==
    \A u \in Users : \A i \in DOMAIN collections[u].polls :
        collections[u].polls[i].correct_index \in 0..(collections[u].polls[i].options - 1)

\* C29: clearing keeps the owner collecting with no entries and with the status
\* message, and a poll sent to an empty collection becomes entry 1
C29_ClearKeepsCollecting ==
    [][\A u \in Users :
          /\ (is_collecting(collections, u) /\ PollClear(u)) =>
                /\ is_collecting(collections', u)
                /\ get_count(collections', u) = 0
                /\ UNCHANGED status_messages
          /\ \A poll \in Polls :
                (is_collecting(collections, u) /\ get_count(collections, u) = 0
                     /\ PollMessage(u, poll)) =>
                    /\ get_count(collections', u) = 1
                    /\ ev'.op = "poll" /\ ev'.val = 1]_vars

C29_Witness ==
    /\ ev.op = "poll_clear"
    /\ ev.val >= 1
    /\ is_collecting(collections, ev.user)
    /\ get_count(collections, ev.user) = 0
    /\ ev.user \in status_messages

\* C30: an owner who is collecting stays collecting over every step that is not
\* the stop button, and the stop button removes the entries and the status message
C30_OnlyStopEnds ==
    [][\A u \in Users :
          /\ is_collecting(collections, u) => (is_collecting(collections', u) \/ PollStop(u))
          /\ u \in status_messages => (u \in status_messages' \/ PollStop(u))
          /\ PollStop(u) =>
                /\ ~is_collecting(collections', u)
                /\ collections'[u].polls = <<>>
                /\ u \notin status_messages']_vars

C30_Witness ==
    /\ ev.op = "poll_stop"
    /\ ev.val >= 1
    /\ ~is_collecting(collections, ev.user)
    /\ ev.user \notin status_messages
    /\ user_states[ev.user].present

\* a step of the poll collector's handlers
PollStep ==
    \/ \E u \in Users : CollectStart(u) \/ PollClear(u) \/ PollStop(u) \/ PollExportPdf(u)
    \/ \E u \in Users : \E ok \in BOOLEAN : PollExportCsv(u, ok)
    \/ \E u \in Users : \E poll \in Polls : PollMessage(u, poll)
    \/ \E ok \in BOOLEAN : CollectStartDone(ok)

\* C31: the poll handlers leave the sessions, the queue and the processing marks
\* alone, and every other step leaves the collections and status messages alone
C31_PollIndependent ==
    [][/\ <<user_states, queue, processing>>' # <<user_states, queue, processing>> => ~PollStep
       /\ <<collections, status_messages>>' # <<collections, status_messages>> => PollStep]_vars

C31_Witness ==
    /\ ev.op = "poll"
    /\ ev.val = MaxPolls
    /\ user_states[ev.user].present
    /\ \E u \in Users : is_processing(processing, u)

\* the queue after the step holds a task that the queue before it did not hold
NewEntry == \E i \in 1..Len(queue') : ~Queued(queue'[i].timestamp)

\* C32: a task is handed to the pipeline once: the step that hands it over removes
\* it from the queue, it is a task never handed over before, and an entry appears
\* in the queue only through the enqueue of a mode callback, as a new task
C32_NoRetry ==
    [][/\ DequeueStep =>
             /\ handed' > handed
             /\ \A i \in 1..Len(queue') : queue'[i].timestamp # handed'
       /\ NewEntry =>
             /\ AddStep
             /\ wpc' = wpc /\ task' = task
             /\ \A i \in 1..Len(queue') :
                   Queued(queue'[i].timestamp) \/ queue'[i].timestamp > clock]_vars

\* a run has just failed and its task is gone, while other tasks wait
C32_Witness ==
    /\ ev.op = "fault"
    /\ ev.val = handed
    /\ ~Queued(ev.val)
    /\ ~InQueue(queue, ev.user)
    /\ queue # <<>>
    /\ wpc = "idle"

\* C33: at most one owner is marked processing
C33_OneProcessing == Cardinality(processing) <= 1

\* an owner is marked while the worker runs that owner's task and others wait
C33_Witness ==
    /\ Cardinality(processing) = 1
    /\ wpc = "extract"
    /\ task.user_id \in processing
    /\ Len(queue) = MAX_QUEUE_SIZE

\* ---------------------------------------------------------------------------
\* Extract stage: process_images_parallel, called at content_processor.py 32
\* ---------------------------------------------------------------------------

NumPages == 4                 \* page images of one task
MAX_CONCURRENT_IMAGES == 2    \* config.MAX_CONCURRENT_IMAGES, the worker count

NoCall == [state |-> "waiting", questions |-> 0]

\* the extraction calls that were started and have not returned
Outstanding(cs) == {p \in DOMAIN cs : cs[p].state = "running"}
Completed(cs) == {p \in DOMAIN cs : cs[p].state = "done"}

\* a pool that starts a call for every page at once
pool_has_room_always(cs) == TRUE

\* a call is started only while fewer than the worker count are outstanding
pool_has_room(cs) == Cardinality(Outstanding(cs)) < MAX_CONCURRENT_IMAGES

\* the call for page p is started
ExtractStart(p) ==
    /\ p \in DOMAIN calls
    /\ calls[p].state = "waiting"
    /\ pool_has_room(calls)
    /\ calls' = [calls EXCEPT ![p].state = "running"]
    /\ ev' = NoEvent
    /\ UNCHANGED <<queue, processing, user_states, wpc, task, h, clock, handed, files,
                   buttons, poster, pdf_sessions, collections, status_messages, csvrun>>

\* the call for page p returns n questions, or fails and counts as none; the
\* progress callback reports the number of completed pages
ExtractFinish(p, ok, n) ==
    /\ p \in DOMAIN calls
    /\ calls[p].state = "running"
    /\ calls' = [calls EXCEPT ![p] = [state |-> "done", questions |-> IF ok THEN n ELSE 0]]
    /\ ev' = Reply("progress", 0, Cardinality(Completed(calls')))
    /\ UNCHANGED <<queue, processing, user_states, wpc, task, h, clock, handed, files,
                   buttons, poster, pdf_sessions, collections, status_messages, csvrun>>

\* the stage is entered with any number of page images
ExtractInit ==
    /\ queue = <<>>
    /\ processing = {}
    /\ user_states = [u \in Users |-> NoState]
    /\ wpc = "extract"
    /\ task = NoTask
    /\ h = NoHandler
    /\ clock = 0
    /\ handed = 0
    /\ files = {}
    /\ buttons = [u \in Users |-> NoButtons]
    /\ poster = NoBatch
    /\ pdf_sessions = [u \in Users |-> NoPdfSession]
    /\ collections = [u \in Users |-> NoCollection]
    /\ status_messages = {}
    /\ csvrun = NoCsvRun
    /\ ev = NoEvent
    /\ \E n \in 0..NumPages : calls = [p \in 1..n |-> NoCall]

ExtractNext ==
    \/ \E p \in 1..NumPages : ExtractStart(p)
    \/ \E p \in 1..NumPages : \E ok \in BOOLEAN : \E n \in QuestionCounts : ExtractFinish(p, ok, n)

ExtractSpec == ExtractInit /\ [][ExtractNext]_vars

\* C34: the extraction calls outstanding at one time never exceed the worker count
C34_BoundedFanOut == Cardinality(Outstanding(calls)) <= MAX_CONCURRENT_IMAGES

\* the pool is full while pages wait and a later page has completed before an
\* earlier one
C34_Witness ==
    /\ Cardinality(Outstanding(calls)) = MAX_CONCURRENT_IMAGES
    /\ \E p \in DOMAIN calls : calls[p].state = "waiting"
    /\ \E p, q \in DOMAIN calls : p < q /\ calls[p].state = "running" /\ calls[q].state = "done"

\* C35: an enqueue that is refused, as already queued or as queue full, leaves the
\* queue with its order and the processing marks as they were
C35_RejectionFrame ==
    [][(AddStep /\ ev'.val \in {-1, -2}) => UNCHANGED <<queue, processing>>]_vars

\* an owner whose task is in a queue of several tasks has just been refused
C35_Witness ==
    /\ ev.op = "add_task"
    /\ ev.val = -2
    /\ InQueue(queue, ev.user)
    /\ Len(queue) > 1
    /\ processing # {}

\* C36: at capacity an owner who is queued or marked processing is refused as
\* already queued, and queue full is answered only to an owner who has no task
\* queued and is not marked processing
C36_AlreadyQueuedFirst ==
    [][AddStep =>
          /\ (Len(queue) >= MAX_QUEUE_SIZE
                 /\ (InQueue(queue, h.user) \/ is_processing(processing, h.user)))
               => ev'.val = -2
          /\ ev'.val = -1 =>
                (~InQueue(queue, h.user) /\ ~is_processing(processing, h.user))]_vars

\* a full queue and a refusal as already queued to the owner being processed
C36_Witness ==
    /\ ev.op = "add_task"
    /\ ev.val = -2
    /\ Len(queue) = MAX_QUEUE_SIZE
    /\ is_processing(processing, ev.user)
    /\ ~InQueue(queue, ev.user)

\* C37: after questions_to_csv the caller's questions, which process_content then
\* stores in the owner's session, have the options they were given, none added
C37_QuestionsUntouched ==
    csvrun.step \in {"written", "parsed"} =>
        \A i \in DOMAIN csvrun.given :
            /\ Len(csvrun.questions[i].options) = Len(csvrun.given[i].options)
            /\ csvrun.questions[i].options = csvrun.given[i].options

\* C38: the reply "Invalid topic ID" is sent only by a text step whose text is not
\* an integer; a topic id that is an integer, sent with a session, leads to
\* posting and not to that reply
C38_InvalidTopicOnlyForBadText ==
    [][(ev'.op \in {"text", "posting"} /\ ev'.val = "InvalidTopicId") =>
          \E u \in Users : TopicText(u, FALSE)]_vars

\* C39: the enqueue of a mode callback adds a task only from a session that holds
\* an upload, and on any other session it adds nothing and raises nothing
C39_ModeNeedsUpload ==
    [][AddToQueueDirect =>
          /\ NewEntry => user_states[h.user].content_type # "absent"
          /\ user_states[h.user].content_type = "absent" =>
                (UNCHANGED queue /\ ev'.op # "mode")]_vars

\* the step changes a collection or the status messages
PollsChanged == <<collections, status_messages>>' # <<collections, status_messages>>

\* C40: a collection comes into being only by the start command; a poll or a
\* clear for an owner who is not collecting changes nothing and add_poll returns 0;
\* a start command for an owner who is collecting leaves the entries as they are
C40_ExistsOnlyAfterStart ==
    [][/\ \A u \in Users :
             /\ (~is_collecting(collections, u) /\ is_collecting(collections', u))
                   => CollectStart(u)
             /\ ~is_collecting(collections, u) =>
                   /\ clear_polls(collections, u) = collections
                   /\ \A poll \in Polls :
                         /\ add_poll(collections, u, poll) = collections
                         /\ add_poll_ret(collections, u, poll) = 0
       /\ \A u \in FlowUsers :
             /\ ~is_collecting(collections, u) =>
                   /\ PollsChanged => ~PollClear(u)
                   /\ (PollsChanged \/ ev' # NoEvent)
                         => ~\E poll \in Polls : PollMessage(u, poll)
             /\ (is_collecting(collections, u) /\ PollsChanged) => ~CollectStart(u)]_vars

\* the start command was sent by an owner whose collection is full of entries
C40_Witness ==
    /\ ev.op = "collect"
    /\ ev.val = MaxPolls
    /\ is_collecting(collections, ev.user)
    /\ get_count(collections, ev.user) = MaxPolls

====
